---- MODULE Spec2Model ----
(***************************************************************************)
(* Flappy Helicopter frame: the game state hook (useGameState), the Frame  *)
(* component's physics tick, input handlers and reset effect, and the      *)
(* canvas dimensions, as a state machine.                                  *)
(*                                                                         *)
(* React state is modelled in two layers.  The variables status, score,    *)
(* bestScore, lastScore, heliPosition, heliVelocity ... hold the hook      *)
(* state with every queued update applied.  The variable closure holds the *)
(* values of the last committed render, which are the values every         *)
(* callback (the game loop callback, updateHelicopter, endGame, the event  *)
(* handlers) reads.  Updates made by a discrete host event (click,         *)
(* touchstart, mousedown, resize ...) are committed by React before the    *)
(* next task, so those handlers refresh the fields they write in closure.  *)
(* Updates made by an animation frame callback or by an effect are only    *)
(* queued: they reach closure at the next Render step, and another frame   *)
(* may run before it.                                                      *)
(*                                                                         *)
(* The module also holds useGameLoop with the browser's frame scheduling   *)
(* (LoopSpec), updateHelicopter as a function of two bodies (TrialSpec),   *)
(* and useLocalStorage in one tab (LsSpec) and, under the best-score key   *)
(* of the older useGameState, in two tabs (TabsSpec).                      *)
(***************************************************************************)
EXTENDS Integers, Sequences, FiniteSets, TLC

\* ---------------------------------------------------------------- constants

BACKGROUND_SCROLL_SPEED ==
    50

GROUND_HEIGHT ==
    50

GRAVITY ==
    600

THRUST ==
    -400

MAX_VELOCITY ==
    400

HELICOPTER_HEIGHT ==
    30

\* ------------------------------------------------------------------- bounds

\* Frame deltas handed to the game loop callback are 1..MaxDelta.
MaxDelta ==
    2

\* incrementScore is not called once score has reached MaxScore.
MaxScore ==
    3

\* Best scores found in storage at start-up are 1..MaxStored.
MaxStored ==
    2

\* bgScrollX is tracked up to MaxScroll; MaxScroll stands for "that or more".
MaxScroll ==
    100

\* A frame arrives 1..MaxGapFrames nominal frame times after the last one.
MaxGapFrames ==
    3

\* Frame requests are made while fewer than MaxHandle handles were given out.
MaxHandle ==
    5

\* The clock is followed up to MaxTime milliseconds.
MaxTime ==
    100

\* The callback handed to useGameLoop changes identity at most MaxVersion
\* times.
MaxVersion ==
    2

\* Two bodies are integrated side by side for up to MaxSteps steps.
MaxSteps ==
    3

Deltas ==
    1..MaxDelta

\* The viewport sizes the container can take: <<width, height>>.
Dims ==
    { <<400, 600>>, <<500, 800>> }

\* ------------------------------------------------------- numbers and strings

\* The value parseInt returns for a string with no leading digits.
NaN ==
    -999999

\* JavaScript a > b: false whenever an operand is NaN.
JsGt(a, b) ==
    a # NaN /\ b # NaN /\ a > b

DigitChars ==
    <<"0", "1", "2", "3", "4", "5", "6", "7", "8", "9">>

RECURSIVE NumberToString(_)
\* Number.prototype.toString of a non-negative integer, as a sequence of
\* characters.
NumberToString(n) ==
    IF n < 10 THEN <<DigitChars[n + 1]>>
    ELSE Append(NumberToString(n \div 10), DigitChars[(n % 10) + 1])

DigitValue(c) ==
    CHOOSE d \in 0..9 : DigitChars[d + 1] = c

IsDigit(c) ==
    \E d \in 0..9 : DigitChars[d + 1] = c

RECURSIVE DigitPrefixValue(_, _, _)
\* The value of the longest prefix of digits of s from index i on, given the
\* value acc of the digits read so far.
DigitPrefixValue(s, i, acc) ==
    IF i > Len(s) \/ ~IsDigit(s[i]) THEN acc
    ELSE DigitPrefixValue(s, i + 1, acc * 10 + DigitValue(s[i]))

\* parseInt(s, 10) of a string without sign or leading blanks: the leading
\* digits, NaN when there are none.
ParseInt(s) ==
    IF Len(s) = 0 \/ ~IsDigit(s[1]) THEN NaN ELSE DigitPrefixValue(s, 1, 0)

TrueString ==
    <<"t", "r", "u", "e">>

\* A localStorage entry: getItem returns null (has = FALSE) or a string.
NoItem ==
    [has |-> FALSE, val |-> <<>>]

Item(s) ==
    [has |-> TRUE, val |-> s]

\* JavaScript truthiness of getItem's result: neither null nor "".
Truthy(e) ==
    e.has /\ e.val # <<>>

\* --------------------------------------------------------------- variables

VARIABLES
    status, score, bestScore, lastScore, hasPlayedBefore,
    store,
    heliPosition, heliVelocity, isThrusting, bgScrollX,
    width, height, canvasReady,
    closure,
    mounted, ticked, op,
    requestRef, previousTimeRef, rafQueue, frameList, frameTime, nextHandle,
    isActive, callbackVersion, now, delivered, loopMounted,
    trial,
    item, storedValue, renderedValue, storageEvents, reported, hookOp

gameVars ==
    <<status, score, bestScore, lastScore, hasPlayedBefore>>

heliVars ==
    <<heliPosition, heliVelocity>>

canvasVars ==
    <<width, height, canvasReady>>

vars ==
    <<status, score, bestScore, lastScore, hasPlayedBefore, store,
      heliPosition, heliVelocity, isThrusting, bgScrollX,
      width, height, canvasReady, closure, mounted, ticked, op,
      requestRef, previousTimeRef, rafQueue, frameList, frameTime, nextHandle,
      isActive, callbackVersion, now, delivered, loopMounted, trial,
      item, storedValue, renderedValue, storageEvents, reported, hookOp>>

\* The state of useLocalStorage in the browser's tabs, and the entry under
\* its key.
lsVars ==
    <<item, storedValue, renderedValue, storageEvents, reported, hookOp>>

\* The browser tabs that show the page.
Tabs ==
    {1, 2}

\* A JSON value: a number n, a boolean (n is 0 or 1), the n-th of Strings,
\* or null.
JsonValue(kind, n) ==
    [kind |-> kind, n |-> n]

\* The value of a hook that has not been mounted.
Unmounted ==
    JsonValue("unmounted", 0)

\* The record of the last operation on useLocalStorage: its name, the tab,
\* the value passed, whether the storage call in it threw, and whether an
\* exception left the hook's code.
HookOp(name, tab, arg, failed, threw) ==
    [name |-> name, tab |-> tab, arg |-> arg, failed |-> failed,
     threw |-> threw]

NoHookOp ==
    HookOp("init", 0, Unmounted, FALSE, FALSE)

\* The state of useGameLoop and of the browser's frame scheduling.
loopVars ==
    <<requestRef, previousTimeRef, rafQueue, frameList, frameTime, nextHandle,
      isActive, callbackVersion, now, delivered, loopMounted>>

\* The value of a ref that was never assigned, or was assigned undefined.
Undefined ==
    -1

\* A body as updateHelicopter reads and writes it: y, the velocity, and
\* whether the step has called endGame.
Body(y, vel, over) ==
    [y |-> y, vel |-> vel, over |-> over]

\* No side-by-side integration is under way.
NoTrial ==
    [height |-> 0, deltaTime |-> 0, steps |-> 0,
     held |-> Body(0, 0, FALSE), released |-> Body(0, 0, FALSE)]

\* What the last run of animate handed to the callback, if it called it, and
\* the timestamp the browser called that run with.
NotDelivered ==
    [called |-> FALSE, deltaTime |-> 0, version |-> 0, time |-> Undefined]

\* The record of the last operation: its name, the frame delta of a tick and
\* the canvas coordinates of a tap.
Op(name, dt, pt) ==
    [name |-> name, dt |-> dt, pt |-> pt]

NoPoint ==
    <<0, 0>>

\* The points a tap can land on, in canvas coordinates: inside the Play Again
\* button of the first viewport, inside that of the second, and in a corner.
TapPoints ==
    { <<200, 380>>, <<250, 480>>, <<10, 10>> }

\* Storage contents the program itself can have left behind in an earlier
\* session: nothing; the played flag alone; a last score of 0 with no best;
\* or a best score b >= 1 with a last score l <= b.
StoredStates ==
    { [bestScore |-> NoItem, lastScore |-> NoItem, hasPlayed |-> NoItem],
      [bestScore |-> NoItem, lastScore |-> NoItem, hasPlayed |-> Item(TrueString)],
      [bestScore |-> NoItem, lastScore |-> Item(NumberToString(0)),
       hasPlayed |-> Item(TrueString)] }
    \cup
    { [bestScore |-> Item(NumberToString(p[1])),
       lastScore |-> Item(NumberToString(p[2])),
       hasPlayed |-> Item(TrueString)] :
         p \in { q \in (1..MaxStored) \X (0..MaxStored) : q[2] <= q[1] } }

\* ------------------------------------------------------------ useGameState

TypeOK ==
    /\ status \in {"START", "PLAYING", "GAME_OVER"}
    /\ score \in 0..(MaxScore + 1)
    /\ isThrusting \in BOOLEAN
    /\ hasPlayedBefore \in BOOLEAN
    /\ mounted \in BOOLEAN
    /\ ticked \in BOOLEAN

\* The state after the first render, with the storage one of stores and the
\* bodies integrated side by side one of trials.
InitFrom(stores, trials, items) ==
    /\ status = "START"
    /\ score = 0
    /\ bestScore = 0
    /\ lastScore = 0
    /\ hasPlayedBefore = FALSE
    /\ store \in stores
    /\ heliPosition = [x |-> 0, y |-> 0]
    /\ heliVelocity = 0
    /\ isThrusting = FALSE
    /\ bgScrollX = 0
    /\ width = 0
    /\ height = 0
    /\ canvasReady = FALSE
    /\ closure = [status |-> "START", score |-> 0, bestScore |-> 0,
                  pos |-> [x |-> 0, y |-> 0], vel |-> 0]
    /\ mounted = FALSE
    /\ ticked = FALSE
    /\ op = Op("init", 0, NoPoint)
    /\ requestRef = Undefined
    /\ previousTimeRef = Undefined
    /\ rafQueue = {}
    /\ frameList = <<>>
    /\ frameTime = 0
    /\ nextHandle = 1
    /\ isActive = FALSE
    /\ callbackVersion = 0
    /\ now = 0
    /\ delivered = NotDelivered
    /\ loopMounted = FALSE
    /\ trial \in trials
    /\ item \in items
    /\ storedValue = [t \in Tabs |-> Unmounted]
    /\ renderedValue = [t \in Tabs |-> Unmounted]
    /\ storageEvents = [t \in Tabs |-> <<>>]
    /\ reported = {}
    /\ hookOp = NoHookOp

Init ==
    InitFrom(StoredStates, {NoTrial}, {NoItem})

\* The values of the render that commits the current state.
Rendered ==
    [status |-> status, score |-> score, bestScore |-> bestScore,
     pos |-> heliPosition, vel |-> heliVelocity]

\* The mount effect of useGameState: read the three entries.
LoadScores ==
    /\ bestScore' = IF Truthy(store.bestScore)
                    THEN ParseInt(store.bestScore.val) ELSE bestScore
    /\ lastScore' = IF Truthy(store.lastScore)
                    THEN ParseInt(store.lastScore.val) ELSE lastScore
    /\ hasPlayedBefore' = IF Truthy(store.hasPlayed)
                          THEN store.hasPlayed.val = TrueString
                          ELSE hasPlayedBefore

\* startGame without the score reset.
startGame_KeepsScore ==
    /\ status' = "PLAYING"
    /\ hasPlayedBefore' = TRUE
    /\ store' = [store EXCEPT !.hasPlayed = Item(TrueString)]
    /\ UNCHANGED <<score, bestScore, lastScore>>

\* startGame that sets the played flag in memory only.
startGame_FlagNotStored ==
    /\ status' = "PLAYING"
    /\ score' = 0
    /\ hasPlayedBefore' = TRUE
    /\ UNCHANGED <<bestScore, lastScore, store>>

startGame ==
    /\ status' = "PLAYING"
    /\ score' = 0
    /\ hasPlayedBefore' = TRUE
    /\ store' = [store EXCEPT !.hasPlayed = Item(TrueString)]
    /\ UNCHANGED <<bestScore, lastScore>>

\* endGame that takes every final score as the new best.
endGame_AlwaysBest(sc, bs) ==
    /\ status' = "GAME_OVER"
    /\ lastScore' = sc
    /\ bestScore' = sc
    /\ store' = [store EXCEPT
                   !.lastScore = Item(NumberToString(sc)),
                   !.bestScore = Item(NumberToString(sc))]
    /\ UNCHANGED <<score, hasPlayedBefore>>

\* endGame that persists the best score under the last score's key.
endGame_WrongKey(sc, bs) ==
    /\ status' = "GAME_OVER"
    /\ lastScore' = sc
    /\ bestScore' = IF JsGt(sc, bs) THEN sc ELSE bestScore
    /\ store' = [store EXCEPT
                   !.lastScore = IF JsGt(sc, bs) THEN Item(NumberToString(sc))
                                 ELSE Item(NumberToString(bestScore))]
    /\ UNCHANGED <<score, hasPlayedBefore>>

\* endGame as created by the render whose score and bestScore are sc and bs.
endGame(sc, bs) ==
    /\ status' = "GAME_OVER"
    /\ lastScore' = sc
    /\ bestScore' = IF JsGt(sc, bs) THEN sc ELSE bestScore
    /\ store' = [store EXCEPT
                   !.lastScore = Item(NumberToString(sc)),
                   !.bestScore = IF JsGt(sc, bs)
                                 THEN Item(NumberToString(sc)) ELSE @]
    /\ UNCHANGED <<score, hasPlayedBefore>>

restartGame ==
    /\ status' = "START"
    /\ UNCHANGED <<score, bestScore, lastScore, hasPlayedBefore, store>>

incrementScore ==
    /\ score' = score + 1
    /\ UNCHANGED <<status, bestScore, lastScore, hasPlayedBefore, store>>

\* ------------------------------------------------------------------- Frame

Min(a, b) ==
    IF a < b THEN a ELSE b

Max(a, b) ==
    IF a > b THEN a ELSE b

\* The y above which the helicopter is in the ground, for a canvas of height h.
GroundLine(h) ==
    h - GROUND_HEIGHT - HELICOPTER_HEIGHT \div 2

\* The y below which the helicopter is in the ceiling.
CeilingLine ==
    HELICOPTER_HEIGHT \div 2

\* The two accelerations taken for each other.
Acceleration_Swapped(thrusting) ==
    IF thrusting THEN GRAVITY ELSE THRUST

Acceleration(thrusting) ==
    IF thrusting THEN THRUST ELSE GRAVITY

\* The velocity left unclamped.
ClampVelocity_None(v) ==
    v

ClampVelocity(v) ==
    Max(Min(v, MAX_VELOCITY), -MAX_VELOCITY)

NewVelocity(v, thrusting, dt) ==
    ClampVelocity(v + Acceleration(thrusting) * dt)

NewY(y, nv, dt) ==
    y + nv * dt

\* The spawn pose the reset effect writes, for a canvas of w by h.
SpawnPosition(w, h) ==
    [x |-> w \div 4, y |-> h \div 2]

\* The bounds check of the Play Again button for a tap at canvas point pt.
InPlayAgain(pt, w, h) ==
    /\ pt[1] >= w \div 2 - 75
    /\ pt[1] <= w \div 2 + 75
    /\ pt[2] >= h \div 2 + 60
    /\ pt[2] <= h \div 2 + 100

\* bgScrollX after scrolling by d more, tracked up to MaxScroll.
ScrollBy(x, d) ==
    Min(x + d, MaxScroll)

\* The reset effect firing for every status but GAME_OVER.
ResetEffect_AlsoOnStart ==
    IF /\ \/ closure'.status # closure.status
          \/ width' # width
          \/ height' # height
       /\ closure'.status # "GAME_OVER"
       /\ width' # 0
       /\ height' # 0
    THEN /\ heliPosition' = SpawnPosition(width', height')
         /\ heliVelocity' = 0
    ELSE UNCHANGED heliVars

\* The reset effect, run after a commit: it fires when status, width or
\* height differ from the previous render's and the new status is PLAYING.
\* What it sets is queued, not committed.
ResetEffect ==
    IF /\ \/ closure'.status # closure.status
          \/ width' # width
          \/ height' # height
       /\ closure'.status = "PLAYING"
       /\ width' # 0
       /\ height' # 0
    THEN /\ heliPosition' = SpawnPosition(width', height')
         /\ heliVelocity' = 0
    ELSE UNCHANGED heliVars

GroundHit ==
    /\ endGame(closure.score, closure.bestScore)
    /\ UNCHANGED heliVars

\* A ceiling contact treated like a ground contact.
CeilingHit_EndsRun ==
    GroundHit

CeilingHit ==
    /\ heliPosition' = [closure.pos EXCEPT !.y = CeilingLine]
    /\ heliVelocity' = 0
    /\ UNCHANGED <<gameVars, store>>

Advance(newY, newVelocity) ==
    /\ heliPosition' = [closure.pos EXCEPT !.y = newY]
    /\ heliVelocity' = newVelocity
    /\ UNCHANGED <<gameVars, store>>

\* updateHelicopter that writes the new pose before it tests the bounds.
updateHelicopter_CommitsFirst(deltaTime) ==
    IF closure.status # "PLAYING"
    THEN UNCHANGED <<gameVars, store, heliVars>>
    ELSE LET newVelocity == NewVelocity(closure.vel, isThrusting, deltaTime)
             newY == NewY(closure.pos.y, newVelocity, deltaTime)
         IN  IF newY > GroundLine(height)
             THEN /\ endGame(closure.score, closure.bestScore)
                  /\ heliPosition' = [closure.pos EXCEPT !.y = newY]
                  /\ heliVelocity' = newVelocity
             ELSE IF newY < CeilingLine THEN CeilingHit
             ELSE Advance(newY, newVelocity)

updateHelicopter(deltaTime) ==
    IF closure.status # "PLAYING"
    THEN UNCHANGED <<gameVars, store, heliVars>>
    ELSE LET newVelocity == NewVelocity(closure.vel, isThrusting, deltaTime)
             newY == NewY(closure.pos.y, newVelocity, deltaTime)
         IN  IF newY > GroundLine(height) THEN GroundHit
             ELSE IF newY < CeilingLine THEN CeilingHit
             ELSE Advance(newY, newVelocity)

\* The callback with the slow scroll in every state but PLAYING.
gameLoopCallback_ScrollsAlways(deltaTime) ==
    IF closure.status = "PLAYING"
    THEN /\ bgScrollX' = ScrollBy(bgScrollX, BACKGROUND_SCROLL_SPEED * deltaTime)
         /\ updateHelicopter(deltaTime)
    ELSE /\ bgScrollX' = ScrollBy(bgScrollX,
                             (BACKGROUND_SCROLL_SPEED * 2 * deltaTime) \div 10)
         /\ UNCHANGED <<gameVars, store, heliVars>>

\* The callback Frame hands to useGameLoop.  deltaTime is the difference of
\* two frame timestamps, in milliseconds, and is handed to updateHelicopter
\* and to the scroll as it is.
gameLoopCallback(deltaTime) ==
    IF closure.status = "PLAYING"
    THEN /\ bgScrollX' = ScrollBy(bgScrollX, BACKGROUND_SCROLL_SPEED * deltaTime)
         /\ updateHelicopter(deltaTime)
    ELSE IF closure.status = "START"
    THEN /\ bgScrollX' = ScrollBy(bgScrollX,
                             (BACKGROUND_SCROLL_SPEED * 2 * deltaTime) \div 10)
         /\ UNCHANGED <<gameVars, store, heliVars>>
    ELSE UNCHANGED <<bgScrollX, gameVars, store, heliVars>>

\* handleInteraction that restarts on a tap anywhere on the game over screen.
handleInteraction_AnyTap(pt) ==
    IF closure.status = "START" THEN startGame
    ELSE IF closure.status = "GAME_OVER" /\ canvasReady
    THEN restartGame
    ELSE UNCHANGED <<gameVars, store>>

handleInteraction(pt) ==
    IF closure.status = "START" THEN startGame
    ELSE IF /\ closure.status = "GAME_OVER"
            /\ canvasReady
            /\ InPlayAgain(pt, width, height)
    THEN restartGame
    ELSE UNCHANGED <<gameVars, store>>

\* Whether handleInteraction, run by the current render, writes state.
Interacts(pt) ==
    \/ closure.status = "START"
    \/ /\ closure.status = "GAME_OVER"
       /\ canvasReady
       /\ InPlayAgain(pt, width, height)

handlePointerDown ==
    isThrusting' = IF closure.status = "PLAYING" THEN TRUE ELSE isThrusting

handlePointerUp ==
    isThrusting' = FALSE

\* The commit that follows a discrete event: the fields the handler wrote
\* reach the next render; updates queued by frames and effects do not.
CommitDiscrete(wrote) ==
    closure' = IF wrote
               THEN [closure EXCEPT !.status = status', !.score = score']
               ELSE closure

\* ----------------------------------------------------------------- actions

\* The mount effects: useGameState loads the scores and useCanvas creates
\* the canvas and sizes it to the container.  No listener is attached and no
\* frame is requested before these effects have run, and the game loop is
\* inactive until their updates are rendered, so the step includes that
\* render.
Mount ==
    /\ ~mounted
    /\ mounted' = TRUE
    /\ LoadScores
    /\ \E d \in Dims : width' = d[1] /\ height' = d[2]
    /\ canvasReady' = TRUE
    /\ closure' = [closure EXCEPT !.bestScore = bestScore']
    /\ op' = Op("mount", 0, NoPoint)
    /\ UNCHANGED <<status, score, store, heliVars, isThrusting, bgScrollX, ticked>>

\* A window resize: resizeCanvas reads the container's new size.
Resize ==
    /\ mounted
    /\ \E d \in Dims :
         /\ <<width, height>> # d
         /\ width' = d[1]
         /\ height' = d[2]
    /\ closure' = closure
    /\ ResetEffect
    /\ op' = Op("resize", 0, NoPoint)
    /\ UNCHANGED <<gameVars, store, isThrusting, bgScrollX, canvasReady,
                   mounted, ticked>>

\* A click on the game container.
Click ==
    /\ mounted
    /\ \E pt \in TapPoints :
         /\ handleInteraction(pt)
         /\ CommitDiscrete(Interacts(pt))
         /\ op' = Op("click", 0, pt)
    /\ UNCHANGED canvasVars
    /\ ResetEffect
    /\ ticked' = IF closure.status = "START" THEN FALSE ELSE ticked
    /\ UNCHANGED <<isThrusting, bgScrollX, mounted>>

\* A touchstart on the game container: both listeners run.
TouchStart ==
    /\ mounted
    /\ \E pt \in TapPoints :
         /\ handleInteraction(pt)
         /\ CommitDiscrete(Interacts(pt))
         /\ op' = Op("touchstart", 0, pt)
    /\ handlePointerDown
    /\ UNCHANGED canvasVars
    /\ ResetEffect
    /\ ticked' = IF closure.status = "START" THEN FALSE ELSE ticked
    /\ UNCHANGED <<bgScrollX, mounted>>

\* A mousedown on the game container.
MouseDown ==
    /\ mounted
    /\ handlePointerDown
    /\ op' = Op("mousedown", 0, NoPoint)
    /\ UNCHANGED <<gameVars, store, heliVars, bgScrollX, canvasVars, closure,
                   mounted, ticked>>

\* A mouseup, touchend, mouseleave or touchcancel on the game container.
PointerUp ==
    /\ mounted
    /\ handlePointerUp
    /\ op' = Op("pointerup", 0, NoPoint)
    /\ UNCHANGED <<gameVars, store, heliVars, bgScrollX, canvasVars, closure,
                   mounted, ticked>>

\* An animation frame delivered to the game loop, deltaTime after the last.
Tick ==
    /\ mounted
    /\ canvasReady
    /\ \E deltaTime \in Deltas :
         /\ gameLoopCallback(deltaTime)
         /\ op' = Op("tick", deltaTime, NoPoint)
    /\ ticked' = IF closure.status = "PLAYING" THEN TRUE ELSE ticked
    /\ UNCHANGED <<isThrusting, canvasVars, closure, mounted>>

\* React renders the updates queued by frames and effects and commits them.
Render ==
    /\ mounted
    /\ closure # Rendered
    /\ closure' = Rendered
    /\ UNCHANGED canvasVars
    /\ ResetEffect
    /\ op' = Op("render", 0, NoPoint)
    /\ UNCHANGED <<gameVars, store, isThrusting, bgScrollX, mounted, ticked>>

Next ==
    \/ Mount /\ UNCHANGED <<loopVars, trial, lsVars>>
    \/ Resize /\ UNCHANGED <<loopVars, trial, lsVars>>
    \/ Click /\ UNCHANGED <<loopVars, trial, lsVars>>
    \/ TouchStart /\ UNCHANGED <<loopVars, trial, lsVars>>
    \/ MouseDown /\ UNCHANGED <<loopVars, trial, lsVars>>
    \/ PointerUp /\ UNCHANGED <<loopVars, trial, lsVars>>
    \/ Tick /\ UNCHANGED <<loopVars, trial, lsVars>>
    \/ Render /\ UNCHANGED <<loopVars, trial, lsVars>>

Spec ==
    Init /\ [][Next]_vars

\* Frame with frames that keep arriving (the game loop re-requests a frame
\* in every run of animate) and with React rendering every update it has
\* queued.
FairSpec ==
    /\ Spec
    /\ WF_vars(Tick /\ UNCHANGED <<loopVars, trial, lsVars>>)
    /\ WF_vars(Render /\ UNCHANGED <<loopVars, trial, lsVars>>)

\* ------------------------------------------- useGameState driven by a client

\* The hook alone, its four operations called in any order by a component
\* that calls one operation per event, so each call is committed before the
\* next one runs.
frameVars ==
    <<heliPosition, heliVelocity, isThrusting, bgScrollX, width, height,
      canvasReady, mounted, ticked>>

CommitCall ==
    closure' = [closure EXCEPT !.status = status', !.score = score',
                               !.bestScore = bestScore']

CallStartGame ==
    /\ mounted
    /\ startGame
    /\ CommitCall
    /\ op' = Op("startGame", 0, NoPoint)
    /\ UNCHANGED frameVars

CallEndGame ==
    /\ mounted
    /\ endGame(closure.score, closure.bestScore)
    /\ CommitCall
    /\ op' = Op("endGame", 0, NoPoint)
    /\ UNCHANGED frameVars

CallRestartGame ==
    /\ mounted
    /\ restartGame
    /\ CommitCall
    /\ op' = Op("restartGame", 0, NoPoint)
    /\ UNCHANGED frameVars

CallIncrementScore ==
    /\ mounted
    /\ score < MaxScore
    /\ incrementScore
    /\ CommitCall
    /\ op' = Op("incrementScore", 0, NoPoint)
    /\ UNCHANGED frameVars

HookNext ==
    \/ Mount /\ UNCHANGED <<loopVars, trial, lsVars>>
    \/ CallStartGame /\ UNCHANGED <<loopVars, trial, lsVars>>
    \/ CallEndGame /\ UNCHANGED <<loopVars, trial, lsVars>>
    \/ CallRestartGame /\ UNCHANGED <<loopVars, trial, lsVars>>
    \/ CallIncrementScore /\ UNCHANGED <<loopVars, trial, lsVars>>

HookSpec ==
    Init /\ [][HookNext]_vars

\* --------------------------------------- useGameState over any storage

\* Strings that are not what toString writes for a score: the empty string,
\* one without digits, and one with a digit followed by a letter.
CorruptStrings ==
    { <<>>, <<"a", "b", "c">>, <<"1", "x">> }

\* What getItem can return for a score key when something else than this
\* program may have written the entry.
ScoreEntries ==
    {NoItem} \cup { Item(str) : str \in CorruptStrings }
             \cup { Item(NumberToString(n)) : n \in 0..MaxStored }

FlagEntries ==
    { NoItem, Item(TrueString), Item(<<"1">>) }

AnyStoredStates ==
    [bestScore : ScoreEntries, lastScore : ScoreEntries, hasPlayed : FlagEntries]

StorageInit ==
    InitFrom(AnyStoredStates, {NoTrial}, {NoItem})

\* The hook driven by a client, started over any storage contents.
StorageSpec ==
    StorageInit /\ [][HookNext]_vars

\* ------------------------------------------------------------- useGameLoop

\* The hook alone, used by a component that re-renders with a new callback
\* or a new isActive and calls stop() and start() from its event handlers,
\* and the browser that delivers the animation frames.  Times are in
\* milliseconds.

\* The time between two display frames at 60 frames a second.
NominalFrame ==
    1000 \div 60

\* The times that can pass between two steps.
FrameGaps ==
    { NominalFrame * k : k \in 1..MaxGapFrames }

\* Everything outside the hook, the record of the last operation excepted.
appVars ==
    <<status, score, bestScore, lastScore, hasPlayedBefore, store,
      heliPosition, heliVelocity, isThrusting, bgScrollX,
      width, height, canvasReady, closure, mounted, ticked, trial>>

\* The frame requests q without the one that has handle id.
CancelAnimationFrame(q, id) ==
    { r \in q : r.id # id }

\* The entries of the sequence l without the one that has handle id.
CancelInFrame(l, id) ==
    SelectSeq(l, LAMBDA r : r.id # id)

RECURSIVE InHandleOrder(_)
\* The frame requests q as a sequence, in the order they were made.
InHandleOrder(q) ==
    IF q = {} THEN <<>>
    ELSE LET first == CHOOSE r \in q : \A o \in q : r.id <= o.id
         IN  <<first>> \o InHandleOrder(q \ {first})

\* requestAnimationFrame(animate) for the animate of render version: the new
\* queue, the handle returned being nextHandle.
RequestAnimationFrame(q, version) ==
    q \cup { [id |-> nextHandle, version |-> version] }

\* The effect of useGameLoop, re-run because isActive or animate changed:
\* the cleanup the last run returned, then the body with the new values.
LoopEffect(active, version) ==
    LET cleaned == IF isActive /\ requestRef # Undefined
                   THEN CancelAnimationFrame(rafQueue, requestRef)
                   ELSE rafQueue
    IN  IF active
        THEN /\ rafQueue' = RequestAnimationFrame(cleaned, version)
             /\ requestRef' = nextHandle
             /\ nextHandle' = nextHandle + 1
        ELSE /\ rafQueue' = cleaned
             /\ UNCHANGED <<requestRef, nextHandle>>

\* The component mounts: the effect runs for the first time.
LoopMount ==
    /\ ~loopMounted
    /\ loopMounted' = TRUE
    /\ \E active \in BOOLEAN :
         /\ isActive' = active
         /\ IF active
            THEN /\ rafQueue' = RequestAnimationFrame(rafQueue, callbackVersion)
                 /\ requestRef' = nextHandle
                 /\ nextHandle' = nextHandle + 1
            ELSE UNCHANGED <<rafQueue, requestRef, nextHandle>>
    /\ op' = Op("loopMount", 0, NoPoint)
    /\ UNCHANGED <<previousTimeRef, frameList, frameTime, callbackVersion, now,
                   delivered, appVars, lsVars>>

\* The component re-renders with the other isActive.
SetActive ==
    /\ loopMounted
    /\ frameList = <<>>
    /\ nextHandle <= MaxHandle
    /\ isActive' = ~isActive
    /\ LoopEffect(~isActive, callbackVersion)
    /\ op' = Op("setActive", 0, NoPoint)
    /\ UNCHANGED <<previousTimeRef, frameList, frameTime, callbackVersion, now,
                   delivered, loopMounted, appVars, lsVars>>

\* The component re-renders with a new callback, so animate is new too.
ChangeCallback ==
    /\ loopMounted
    /\ frameList = <<>>
    /\ nextHandle <= MaxHandle
    /\ callbackVersion < MaxVersion
    /\ callbackVersion' = callbackVersion + 1
    /\ LoopEffect(isActive, callbackVersion + 1)
    /\ op' = Op("changeCallback", 0, NoPoint)
    /\ UNCHANGED <<previousTimeRef, frameList, frameTime, isActive, now,
                   delivered, loopMounted, appVars, lsVars>>

stop ==
    IF requestRef # Undefined
    THEN /\ rafQueue' = CancelAnimationFrame(rafQueue, requestRef)
         /\ frameList' = CancelInFrame(frameList, requestRef)
         /\ requestRef' = Undefined
    ELSE UNCHANGED <<rafQueue, frameList, requestRef>>

start_KeepsPreviousTime ==
    IF requestRef = Undefined
    THEN /\ previousTimeRef' = previousTimeRef
         /\ rafQueue' = RequestAnimationFrame(rafQueue, callbackVersion)
         /\ requestRef' = nextHandle
         /\ nextHandle' = nextHandle + 1
    ELSE UNCHANGED <<previousTimeRef, rafQueue, requestRef, nextHandle>>

start ==
    IF requestRef = Undefined
    THEN /\ previousTimeRef' = now
         /\ rafQueue' = RequestAnimationFrame(rafQueue, callbackVersion)
         /\ requestRef' = nextHandle
         /\ nextHandle' = nextHandle + 1
    ELSE UNCHANGED <<previousTimeRef, rafQueue, requestRef, nextHandle>>

\* An event handler of the component calls stop().
CallStop ==
    /\ loopMounted
    /\ frameList = <<>>
    /\ stop
    /\ op' = Op("stop", 0, NoPoint)
    /\ UNCHANGED <<previousTimeRef, frameTime, nextHandle, isActive,
                   callbackVersion, now, delivered, loopMounted, appVars, lsVars>>

\* An event handler of the component calls start().
CallStart ==
    /\ loopMounted
    /\ frameList = <<>>
    /\ nextHandle <= MaxHandle
    /\ start
    /\ op' = Op("start", 0, NoPoint)
    /\ UNCHANGED <<frameList, frameTime, isActive, callbackVersion, now,
                   delivered, loopMounted, appVars, lsVars>>

\* Time passes with no frame delivered.
Elapse ==
    /\ loopMounted
    /\ frameList = <<>>
    /\ \E gap \in FrameGaps :
         /\ now + gap <= MaxTime
         /\ now' = now + gap
    /\ op' = Op("elapse", 0, NoPoint)
    /\ UNCHANGED <<requestRef, previousTimeRef, rafQueue, frameList, frameTime,
                   nextHandle, isActive, callbackVersion, delivered,
                   loopMounted, appVars, lsVars>>

\* How long before its callbacks run a display frame can have begun: the
\* timestamp handed to the callbacks is the time the frame began, and event
\* handlers that read performance.now() can run between the two.
FrameLags ==
    {0, NominalFrame}

\* The browser runs the callbacks of a display frame: the requests made so
\* far are the callbacks of this frame and their timestamp is the time the
\* frame began, at least a nominal frame after the frame before.
BeginFrame ==
    /\ frameList = <<>>
    /\ rafQueue # {}
    /\ \E gap \in FrameGaps \cup {0}, lag \in FrameLags :
         /\ now + gap <= MaxTime
         /\ now + gap - lag >= frameTime + NominalFrame
         /\ now' = now + gap
         /\ frameTime' = now + gap - lag
    /\ frameList' = InHandleOrder(rafQueue)
    /\ rafQueue' = {}
    /\ op' = Op("beginFrame", 0, NoPoint)
    /\ UNCHANGED <<requestRef, previousTimeRef, nextHandle, isActive,
                   callbackVersion, delivered, loopMounted, appVars, lsVars>>

\* animate of render version, called by the browser with the frame's time.
animate(time, version) ==
    /\ delivered' = IF previousTimeRef # Undefined
                    THEN [called |-> TRUE,
                          deltaTime |-> time - previousTimeRef,
                          version |-> version,
                          time |-> time]
                    ELSE [NotDelivered EXCEPT !.version = version,
                                              !.time = time]
    /\ previousTimeRef' = time
    /\ rafQueue' = RequestAnimationFrame(rafQueue, version)
    /\ requestRef' = nextHandle
    /\ nextHandle' = nextHandle + 1

\* The browser runs the next callback of the display frame.
RunAnimate ==
    /\ frameList # <<>>
    /\ animate(frameTime, Head(frameList).version)
    /\ frameList' = Tail(frameList)
    /\ op' = Op("animate", 0, NoPoint)
    /\ UNCHANGED <<frameTime, isActive, callbackVersion, now, loopMounted,
                   appVars, lsVars>>

LoopInit ==
    InitFrom({ [bestScore |-> NoItem, lastScore |-> NoItem,
                hasPlayed |-> NoItem] }, {NoTrial}, {NoItem})

LoopNext ==
    \/ LoopMount
    \/ SetActive
    \/ ChangeCallback
    \/ CallStop
    \/ CallStart
    \/ Elapse
    \/ BeginFrame
    \/ RunAnimate

LoopSpec ==
    LoopInit /\ [][LoopNext]_vars

\* ------------------------------------------- updateHelicopter as a function

\* One call of updateHelicopter on a body, for a canvas of height h: what it
\* writes as a function of what it reads.  A body whose run has ended is
\* left alone (status is no longer PLAYING).
Integrate(body, thrusting, deltaTime, h) ==
    IF body.over THEN body
    ELSE LET newVelocity == NewVelocity(body.vel, thrusting, deltaTime)
             newY == NewY(body.y, newVelocity, deltaTime)
         IN  IF newY > GroundLine(h) THEN Body(body.y, body.vel, TRUE)
             ELSE IF newY < CeilingLine THEN Body(CeilingLine, 0, FALSE)
             ELSE Body(newY, newVelocity, FALSE)

\* The velocities the clamp and the two accelerations leave a body with over
\* whole deltas.
TrialVelocities ==
    { v \in (-MAX_VELOCITY)..MAX_VELOCITY : v % 200 = 0 }

\* Starting positions in the band of a canvas of height h: the ceiling line,
\* the ground line, the spawn height and a grid between the lines.
TrialYs(h) ==
    { y \in CeilingLine..GroundLine(h) :
        \/ (y - CeilingLine) % 65 = 0
        \/ y = h \div 2
        \/ y = GroundLine(h) }

\* Two bodies with the same pose, to be stepped with the same delta, one
\* with thrust held and one with thrust released.
Trials ==
    UNION { { [height |-> d[2], deltaTime |-> deltaTime, steps |-> 0,
               held |-> Body(y, v, FALSE), released |-> Body(y, v, FALSE)] :
                 y \in TrialYs(d[2]), v \in TrialVelocities,
                 deltaTime \in Deltas } : d \in Dims }

TrialInit ==
    InitFrom({ [bestScore |-> NoItem, lastScore |-> NoItem,
                hasPlayed |-> NoItem] }, Trials, {NoItem})

\* One more step of both bodies.
StepBoth ==
    /\ trial.steps < MaxSteps
    /\ trial' = [trial EXCEPT
                   !.steps = @ + 1,
                   !.held = Integrate(@, TRUE, trial.deltaTime, trial.height),
                   !.released = Integrate(@, FALSE, trial.deltaTime,
                                          trial.height)]
    /\ UNCHANGED <<status, score, bestScore, lastScore, hasPlayedBefore, store,
                   heliPosition, heliVelocity, isThrusting, bgScrollX,
                   width, height, canvasReady, closure, mounted, ticked, op,
                   loopVars, lsVars>>

TrialNext ==
    StepBoth

TrialSpec ==
    TrialInit /\ [][TrialNext]_vars

\* --------------------------------------------------------- useLocalStorage

\* The hook for one key, used by a component in each of the browser's tabs.
\* storedValue is the hook's React state, renderedValue the storedValue of
\* the tab's last render, which is the one setValue reads.

\* The largest number stored.
MaxNumber ==
    2

\* The most storage events that wait for one tab.
MaxEvents ==
    1

\* The strings that are values: the empty string.
Strings ==
    << <<>> >>

Quote ==
    "\""

FalseString ==
    <<"f", "a", "l", "s", "e">>

NullString ==
    <<"n", "u", "l", "l">>

Number(n) ==
    JsonValue("number", n)

\* The values the hook is used with.
JsonValues ==
    { Number(n) : n \in 0..MaxNumber }
        \cup { JsonValue("boolean", b) : b \in {0, 1} }
        \cup { JsonValue("string", i) : i \in 0..(Len(Strings) - 1) }
        \cup { JsonValue("null", 0) }

\* JSON.stringify of a value, as a sequence of characters.
JSONStringify(v) ==
    CASE v.kind = "number" -> NumberToString(v.n)
      [] v.kind = "boolean" -> IF v.n = 1 THEN TrueString ELSE FalseString
      [] v.kind = "string" -> <<Quote>> \o Strings[v.n + 1] \o <<Quote>>
      [] OTHER -> NullString

\* What JSON.parse is modelled to return when it throws a SyntaxError.
SyntaxError ==
    JsonValue("SyntaxError", 0)

\* Whether s is a JSON number without sign, fraction or exponent.
IsJsonInteger(s) ==
    /\ Len(s) >= 1
    /\ \A i \in 1..Len(s) : IsDigit(s[i])
    /\ Len(s) > 1 => s[1] # "0"

\* JSON.parse of a sequence of characters: the value, or SyntaxError.
JSONParse(s) ==
    IF s = TrueString THEN JsonValue("boolean", 1)
    ELSE IF s = FalseString THEN JsonValue("boolean", 0)
    ELSE IF s = NullString THEN JsonValue("null", 0)
    ELSE IF IsJsonInteger(s) THEN Number(DigitPrefixValue(s, 1, 0))
    ELSE IF /\ Len(s) >= 2
            /\ s[1] = Quote
            /\ s[Len(s)] = Quote
            /\ \E i \in 1..Len(Strings) : Strings[i] = SubSeq(s, 2, Len(s) - 1)
    THEN JsonValue("string",
                   (CHOOSE i \in 1..Len(Strings) :
                        Strings[i] = SubSeq(s, 2, Len(s) - 1)) - 1)
    ELSE SyntaxError

\* The initialValue the component passes to the hook.
InitialValue ==
    Number(0)

\* Strings that JSON.stringify does not write: the empty string and one
\* that JSON.parse rejects.
NotJson ==
    { <<>>, <<"a", "b", "c">> }

\* What the key can hold when the page is opened: nothing, the JSON of a
\* value, or something that was not written by the hook.
LsItems ==
    {NoItem}
        \cup { Item(JSONStringify(v)) : v \in JsonValues }
        \cup { Item(c) : c \in NotJson }

Mounted(t) ==
    storedValue[t] # Unmounted

ReadInitial_ParsedTruthy(getItemThrows) ==
    IF getItemThrows \/ ~item.has THEN InitialValue
    ELSE IF JSONParse(item.val) = SyntaxError THEN InitialValue
    ELSE IF JSONParse(item.val) \in
              {Number(0), JsonValue("boolean", 0), JsonValue("string", 0),
               JsonValue("null", 0)}
    THEN InitialValue
    ELSE JSONParse(item.val)

\* The initializer of the hook's state: the parsed item if getItem returned
\* a non-empty string, initialValue if it returned nothing, or if getItem or
\* JSON.parse threw.
ReadInitial(getItemThrows) ==
    IF getItemThrows THEN InitialValue
    ELSE IF ~Truthy(item) THEN InitialValue
    ELSE IF JSONParse(item.val) = SyntaxError THEN InitialValue
    ELSE JSONParse(item.val)

\* The storage events a change of the entry to newItem by tab t queues: one
\* for every other tab that listens, none if the entry did not change.
StorageEventsFrom(t, newItem) ==
    [o \in Tabs |->
        IF o # t /\ Mounted(o) /\ newItem # item
        THEN Append(storageEvents[o], newItem)
        ELSE storageEvents[o]]

\* Whether the tabs other than t can take one more event.
RoomForEvents(t) ==
    \A o \in Tabs \ {t} : Len(storageEvents[o]) < MaxEvents

\* setValue with the value it computed: the state is set first, then the
\* entry is written; an exception of setItem is caught and logged.
setValue(t, valueToStore, setItemThrows) ==
    /\ storedValue' = [storedValue EXCEPT ![t] = valueToStore]
    /\ IF setItemThrows
       THEN UNCHANGED <<item, storageEvents>>
       ELSE /\ item' = Item(JSONStringify(valueToStore))
            /\ storageEvents' = StorageEventsFrom(t, item')

\* JavaScript newScore > bestScore for a number and any value: the value is
\* converted to a number first, and a string that is no number to NaN.
NumberGt(newScore, v) ==
    CASE v.kind = "number" -> newScore > v.n
      [] v.kind = "boolean" -> newScore > v.n
      [] v.kind = "null" -> newScore > 0
      [] v.kind = "string" -> Strings[v.n + 1] = <<>> /\ newScore > 0
      [] OTHER -> FALSE

\* The component of tab t mounts.
HookMount(t) ==
    /\ ~Mounted(t)
    /\ \E getItemThrows \in BOOLEAN :
         /\ storedValue' = [storedValue EXCEPT ![t] = ReadInitial(getItemThrows)]
         /\ renderedValue' = [renderedValue EXCEPT
                                ![t] = ReadInitial(getItemThrows)]
         /\ hookOp' = HookOp("mount", t, Unmounted, getItemThrows, FALSE)
    /\ UNCHANGED <<item, storageEvents, reported>>

\* The component of tab t unmounts: its state is gone and its listener is
\* removed, so the events that wait for it reach nothing.
HookUnmount(t) ==
    /\ Mounted(t)
    /\ storedValue' = [storedValue EXCEPT ![t] = Unmounted]
    /\ renderedValue' = [renderedValue EXCEPT ![t] = Unmounted]
    /\ storageEvents' = [storageEvents EXCEPT ![t] = <<>>]
    /\ hookOp' = HookOp("unmount", t, Unmounted, FALSE, FALSE)
    /\ UNCHANGED <<item, reported>>

\* A handler of tab t calls setValue(v).
SetValue(t) ==
    /\ Mounted(t)
    /\ RoomForEvents(t)
    /\ \E v \in JsonValues, setItemThrows \in BOOLEAN :
         /\ setValue(t, v, setItemThrows)
         /\ hookOp' = HookOp("setValue", t, v, setItemThrows, FALSE)
    /\ UNCHANGED <<renderedValue, reported>>

\* A handler of tab t calls setValue(prev => prev + 1): the function is
\* applied to the storedValue of the render the handler belongs to.
Increment(t) ==
    /\ Mounted(t)
    /\ RoomForEvents(t)
    /\ renderedValue[t].kind = "number"
    /\ renderedValue[t].n < MaxNumber
    /\ storedValue[t].kind = "number"
    /\ storedValue[t].n < MaxNumber
    /\ \E setItemThrows \in BOOLEAN :
         /\ setValue(t, Number(renderedValue[t].n + 1), setItemThrows)
         /\ hookOp' = HookOp("increment", t, Unmounted, setItemThrows, FALSE)
    /\ UNCHANGED <<renderedValue, reported>>

\* React renders tab t with the state set since its last render.
HookRender(t) ==
    /\ Mounted(t)
    /\ renderedValue[t] # storedValue[t]
    /\ renderedValue' = [renderedValue EXCEPT ![t] = storedValue[t]]
    /\ hookOp' = HookOp("render", t, Unmounted, FALSE, FALSE)
    /\ UNCHANGED <<item, storedValue, storageEvents, reported>>

\* handleStorageChange for an event whose key is the hook's: a newValue that
\* is a non-empty string is parsed and set; JSON.parse is not in a try
\* block, so its exception leaves the handler.
handleStorageChange(t, e) ==
    IF ~Truthy(e)
    THEN /\ UNCHANGED storedValue
         /\ hookOp' = HookOp("storage", t, Unmounted, FALSE, FALSE)
    ELSE IF JSONParse(e.val) = SyntaxError
    THEN /\ UNCHANGED storedValue
         /\ hookOp' = HookOp("storage", t, Unmounted, FALSE, TRUE)
    ELSE /\ storedValue' = [storedValue EXCEPT ![t] = JSONParse(e.val)]
         /\ hookOp' = HookOp("storage", t, Unmounted, FALSE, FALSE)

\* The browser delivers the oldest storage event that waits for tab t.
DeliverStorageEvent(t) ==
    /\ Mounted(t)
    /\ storageEvents[t] # <<>>
    /\ handleStorageChange(t, Head(storageEvents[t]))
    /\ storageEvents' = [storageEvents EXCEPT ![t] = Tail(@)]
    /\ UNCHANGED <<item, renderedValue, reported>>

\* Something else than the hooks modelled (the hook of another window, the
\* user, another script of the origin) writes or removes the entry; every
\* tab that listens gets the event.
ForeignWrite ==
    /\ RoomForEvents(0)
    /\ \E newItem \in LsItems :
         /\ newItem # item
         /\ item' = newItem
         /\ storageEvents' = StorageEventsFrom(0, newItem)
    /\ hookOp' = HookOp("foreignWrite", 0, Unmounted, FALSE, FALSE)
    /\ UNCHANGED <<storedValue, renderedValue, reported>>

\* Everything outside useLocalStorage.
nonLsVars ==
    <<appVars, op, loopVars>>

LsInit ==
    InitFrom({ [bestScore |-> NoItem, lastScore |-> NoItem,
                hasPlayed |-> NoItem] }, {NoTrial}, LsItems)

\* The tab whose hook is followed when the other writers are left open.
FirstTab ==
    1

LsNext ==
    \/ HookMount(FirstTab) /\ UNCHANGED nonLsVars
    \/ HookUnmount(FirstTab) /\ UNCHANGED nonLsVars
    \/ SetValue(FirstTab) /\ UNCHANGED nonLsVars
    \/ Increment(FirstTab) /\ UNCHANGED nonLsVars
    \/ HookRender(FirstTab) /\ UNCHANGED nonLsVars
    \/ DeliverStorageEvent(FirstTab) /\ UNCHANGED nonLsVars
    \/ ForeignWrite /\ UNCHANGED nonLsVars

\* The hook in one tab, with working and failing storage and with other
\* writers of its entry.
LsSpec ==
    LsInit /\ [][LsNext]_vars

\* -------------------------------------------- the best score in two tabs

\* useGameState over useLocalStorage, in both tabs, for the best-score key.

\* updateScore(newScore) of tab t: setBestScore(newScore) if newScore is
\* above the bestScore of the tab's last render.
updateScore(t, newScore) ==
    IF NumberGt(newScore, renderedValue[t])
    THEN setValue(t, Number(newScore), FALSE)
    ELSE UNCHANGED <<storedValue, item, storageEvents>>

\* A run ends in tab t with the score newScore; the tab has rendered the
\* state set before the run.
UpdateScore(t) ==
    /\ Mounted(t)
    /\ renderedValue[t] = storedValue[t]
    /\ RoomForEvents(t)
    /\ \E newScore \in 1..MaxNumber :
         /\ updateScore(t, newScore)
         /\ reported' = reported \cup {newScore}
         /\ hookOp' = HookOp("updateScore", t, Number(newScore), FALSE, FALSE)
    /\ UNCHANGED renderedValue

TabsInit ==
    InitFrom({ [bestScore |-> NoItem, lastScore |-> NoItem,
                hasPlayed |-> NoItem] }, {NoTrial}, {NoItem})

TabsNext ==
    \/ \E t \in Tabs : HookMount(t) /\ UNCHANGED nonLsVars
    \/ \E t \in Tabs : UpdateScore(t) /\ UNCHANGED nonLsVars
    \/ \E t \in Tabs : HookRender(t) /\ UNCHANGED nonLsVars
    \/ \E t \in Tabs : DeliverStorageEvent(t) /\ UNCHANGED nonLsVars

\* Two tabs that share the best-score entry.
TabsSpec ==
    TabsInit /\ [][TabsNext]_vars

\* ------------------------------------------------------------------ claims

Taps ==
    {"click", "touchstart"}

\* The velocity and y the tick of the step computes: updateHelicopter
\* integrates from the pose of the render that created it, over the delta
\* recorded in op'.
TickNewVelocity ==
    NewVelocity(closure.vel, isThrusting, op'.dt)

TickNewY ==
    NewY(closure.pos.y, TickNewVelocity, op'.dt)

\* C1: status starts at START and changes only along three edges:
\* START -> PLAYING on a tap, PLAYING -> GAME_OVER on a collision found in a
\* tick, GAME_OVER -> START on a tap inside the Play Again button.
C1_StatusEdges ==
    /\ status = "START"
    /\ [][status' # status =>
            \/ /\ status = "START"
               /\ status' = "PLAYING"
               /\ op'.name \in Taps
            \/ /\ status = "PLAYING"
               /\ status' = "GAME_OVER"
               /\ op'.name = "tick"
               /\ TickNewY > height - GROUND_HEIGHT - HELICOPTER_HEIGHT \div 2
            \/ /\ status = "GAME_OVER"
               /\ status' = "START"
               /\ op'.name \in Taps
               /\ InPlayAgain(op'.pt, width, height)]_vars

\* C1 witness: a run was played and ended, and a tap inside the Play Again
\* button has brought status back to START.
C1_Witness ==
    /\ status = "START"
    /\ ticked
    /\ op.name \in Taps
    /\ InPlayAgain(op.pt, width, height)

\* C2: every START -> PLAYING transition leaves score at exactly 0.
C2_ScoreResetOnStart ==
    [][(status = "START" /\ status' = "PLAYING") => score' = 0]_vars

\* C2 witness: startGame has just run after a run that ended with a score
\* above anything storage held, and score is 0.
C2_Witness ==
    /\ op.name = "startGame"
    /\ status = "PLAYING"
    /\ score = 0
    /\ lastScore > MaxStored

\* C3: every PLAYING -> GAME_OVER transition leaves bestScore at the larger of
\* the old bestScore and the score, and once the stored values are loaded no
\* operation but endGame changes bestScore.
C3_BestScoreIsMax ==
    [][/\ (status = "PLAYING" /\ status' = "GAME_OVER")
            => bestScore' = Max(bestScore, score)
       /\ (mounted /\ bestScore' # bestScore) => op'.name = "endGame"]_vars

\* C3 witness: endGame has just raised bestScore to the score of the run,
\* above the best score that was loaded.
C3_Witness ==
    /\ op.name = "endGame"
    /\ status = "GAME_OVER"
    /\ bestScore = score
    /\ score > MaxStored

\* C4: every PLAYING -> GAME_OVER transition leaves lastScore, and the stored
\* last score, equal to the score, and when the score beat the best the stored
\* best score equals the new bestScore.
C4_LastScoreCommitted ==
    [][(status = "PLAYING" /\ status' = "GAME_OVER") =>
            /\ lastScore' = score
            /\ store'.lastScore = Item(NumberToString(score))
            /\ ParseInt(store'.lastScore.val) = score
            /\ score > bestScore =>
                 /\ Truthy(store'.bestScore)
                 /\ ParseInt(store'.bestScore.val) = bestScore']_vars

\* C4 witness: a run has ended with a positive score that beat the best, and
\* memory and storage both hold it.
C4_Witness ==
    /\ op.name = "endGame"
    /\ status = "GAME_OVER"
    /\ score > 0
    /\ lastScore = score
    /\ bestScore = score
    /\ store.lastScore = Item(NumberToString(score))
    /\ store.bestScore = Item(NumberToString(score))
    /\ hasPlayedBefore

\* C5: while PLAYING, a tick whose integrated y exceeds the ground line moves
\* status to GAME_OVER in that tick and writes neither position nor velocity.
C5_GroundEndsRun ==
    [][(/\ op'.name = "tick"
        /\ status = "PLAYING"
        /\ TickNewY > height - GROUND_HEIGHT - HELICOPTER_HEIGHT \div 2)
        => /\ status' = "GAME_OVER"
           /\ heliPosition' = heliPosition
           /\ heliVelocity' = heliVelocity]_vars

\* C5 witness: a tick has just ended a run from a moving helicopter whose
\* integrated y was below the ground line, and the pose is still in the band.
C5_Witness ==
    /\ op.name = "tick"
    /\ status = "GAME_OVER"
    /\ closure.status = "PLAYING"
    /\ closure.vel # 0
    /\ NewY(closure.pos.y, NewVelocity(closure.vel, isThrusting, op.dt), op.dt)
         > GroundLine(height)
    /\ heliPosition = closure.pos
    /\ heliVelocity = closure.vel
    /\ heliPosition.y <= GroundLine(height)

\* C6: while PLAYING, a tick whose integrated y is above the ceiling line sets
\* y to half the helicopter's height and leaves status PLAYING.
C6_CeilingKeepsPlaying ==
    [][(/\ op'.name = "tick"
        /\ status = "PLAYING"
        /\ TickNewY < HELICOPTER_HEIGHT \div 2)
        => /\ status' = "PLAYING"
           /\ heliPosition'.y = HELICOPTER_HEIGHT \div 2]_vars

\* C6 witness: with thrust held, a tick has touched the ceiling from a pose
\* that an earlier ceiling contact had left, and the run goes on.
C6_Witness ==
    /\ op.name = "tick"
    /\ status = "PLAYING"
    /\ closure.status = "PLAYING"
    /\ isThrusting
    /\ closure.pos.y = CeilingLine
    /\ NewY(closure.pos.y, NewVelocity(closure.vel, isThrusting, op.dt), op.dt)
         < CeilingLine
    /\ heliPosition.y = CeilingLine

\* C7: on a ceiling contact (of a tick that integrates from the committed
\* pose) the velocity after the tick has the opposite sign of the approach
\* velocity and a strictly smaller, non-zero magnitude.
C7_CeilingBounce ==
    [][(/\ op'.name = "tick"
        /\ status = "PLAYING"
        /\ closure = Rendered
        /\ TickNewY < HELICOPTER_HEIGHT \div 2)
        => /\ heliVelocity' > 0
           /\ heliVelocity' < -TickNewVelocity]_vars

\* C8: in every reachable state the vertical velocity lies in
\* [-MAX_VELOCITY, MAX_VELOCITY].
C8_VelocityClamped ==
    /\ -MAX_VELOCITY <= heliVelocity
    /\ heliVelocity <= MAX_VELOCITY
    /\ -MAX_VELOCITY <= closure.vel
    /\ closure.vel <= MAX_VELOCITY

\* C8 witness: a tick has accelerated an already falling helicopter past
\* MAX_VELOCITY and the velocity written is MAX_VELOCITY.
C8_Witness ==
    /\ op.name = "tick"
    /\ status = "PLAYING"
    /\ ~isThrusting
    /\ closure.vel > 0
    /\ closure.vel + GRAVITY * op.dt > MAX_VELOCITY
    /\ heliVelocity = MAX_VELOCITY
    /\ heliPosition.y = closure.pos.y + MAX_VELOCITY * op.dt

\* C9: in every state once the canvas is sized, the helicopter's y lies in
\* [halfHeight, height - GROUND_HEIGHT - halfHeight].
C9_YInBand ==
    mounted =>
        /\ heliPosition.y >= HELICOPTER_HEIGHT \div 2
        /\ heliPosition.y <= height - GROUND_HEIGHT - HELICOPTER_HEIGHT \div 2

\* C10: the first physics tick of every run integrates from the spawn pose
\* (x = width/4, y = height/2, velocity 0).
C10_SpawnBeforeFirstTick ==
    [][(~ticked /\ ticked') =>
            /\ closure.pos = [x |-> width \div 4, y |-> height \div 2]
            /\ closure.vel = 0]_vars

C12_RestartOnlyStatus ==
    [][(status = "GAME_OVER" /\ status' = "START") =>
            /\ score' = score
            /\ bestScore' = bestScore
            /\ lastScore' = lastScore
            /\ hasPlayedBefore' = hasPlayedBefore
            /\ store' = store
            /\ heliPosition' = heliPosition
            /\ heliVelocity' = heliVelocity]_vars

\* C12 witness: a tap on Play Again has just returned to START after a run
\* that had moved the helicopter away from the spawn pose, with a best score
\* kept from an earlier session.
C12_Witness ==
    /\ status = "START"
    /\ closure.status = "START"
    /\ op.name \in Taps
    /\ InPlayAgain(op.pt, width, height)
    /\ ticked
    /\ heliPosition.x = width \div 4
    /\ heliPosition.y # height \div 2
    /\ bestScore > 0
    /\ hasPlayedBefore

\* C13: the delta handed to the callback, which Frame hands on to the physics
\* step as it is, never exceeds a fixed maximum (one nominal frame time),
\* however long the gap between two frame timestamps.
C13_DeltaClamped ==
    delivered.called => delivered.deltaTime <= NominalFrame

\* Whether a stored entry starts with a number that can be read back.
IsScoreEntry(e) ==
    e.has /\ ParseInt(e.val) # NaN

\* C14: whatever the three entries hold, loading leaves bestScore and
\* lastScore at the stored number, or at 0 when the entry is missing or
\* holds no number, and hasPlayedBefore true only for a stored 'true'; and every run
\* that ends afterwards leaves bestScore a number not below its score.
C14_CorruptStorageDefaults ==
    [][/\ op'.name = "mount" =>
            /\ bestScore' = IF IsScoreEntry(store.bestScore)
                            THEN ParseInt(store.bestScore.val) ELSE 0
            /\ lastScore' = IF IsScoreEntry(store.lastScore)
                            THEN ParseInt(store.lastScore.val) ELSE 0
            /\ hasPlayedBefore' = (store.hasPlayed = Item(TrueString))
       /\ (status = "PLAYING" /\ status' = "GAME_OVER") =>
            /\ bestScore' # NaN
            /\ bestScore' >= score]_vars

\* C15: while PLAYING, forward scroll earns score: a tick of a run that moves
\* the scroll position on by BACKGROUND_SCROLL_SPEED or more (at least one
\* distance unit, for every unit up to that) leaves score at 1 or more,
\* with or without thrust.
C15_ScorePerDistance ==
    [][(/\ op'.name = "tick"
        /\ closure.status = "PLAYING"
        /\ bgScrollX' - bgScrollX >= BACKGROUND_SCROLL_SPEED)
        => score' >= 1]_vars

\* C16: no operation lowers score while status stays PLAYING, and from
\* GAME_OVER on score is unchanged until the next start.
C16_ScoreMonotone ==
    [][/\ (status = "PLAYING" /\ status' = "PLAYING") => score' >= score
       /\ (status = "GAME_OVER" /\ status' # "PLAYING") => score' = score]_vars

\* C17: after any number of equal steps from the same pose, the body
\* stepped with thrust held is at a strictly smaller y than the body stepped
\* with thrust released.
C17_ThrustStrictlyHigher ==
    trial.steps >= 1 => trial.held.y < trial.released.y

\* C17 as amended: after any number of equal steps from the same pose, the
\* body stepped with thrust held is at a strictly smaller y than the body
\* stepped with thrust released, provided the released body has not hit the
\* ground and is below the ceiling line.
C17_ThrustHigherInFlight ==
    (/\ trial.steps >= 1
     /\ ~trial.released.over
     /\ trial.released.y > CeilingLine)
        => /\ trial.held.y < trial.released.y
           /\ ~trial.held.over

\* C17 witness: after two or more steps both clamps have applied: the body
\* with thrust held is at the ceiling line with velocity 0, the released one
\* is in flight at MAX_VELOCITY.
C17_Witness ==
    /\ trial.steps >= 2
    /\ trial.held = Body(CeilingLine, 0, FALSE)
    /\ trial.released.vel = MAX_VELOCITY
    /\ ~trial.released.over
    /\ trial.released.y > CeilingLine + MAX_VELOCITY

\* C18: a second stop() right after a stop() changes nothing, a second
\* start() right after a start() changes nothing, and a start() called when
\* no frame request is outstanding (the loop was stopped by stop() or by
\* isActive turning false) leaves a frame request outstanding.
C18_StopStartIdempotent ==
    [][/\ (op.name = "stop" /\ op'.name = "stop") => loopVars' = loopVars
       /\ (op.name = "start" /\ op'.name = "start") => loopVars' = loopVars
       /\ (op'.name = "start" /\ rafQueue = {}) => rafQueue' # {}]_vars

\* C19: every physics tick integrates from the position and velocity last
\* written (by the previous tick or the spawn reset), not from an older
\* render's, and endGame is called only while the run is still on, so at
\* most once per run.
C19_TickFromCurrentState ==
    [][(op'.name = "tick" /\ closure.status = "PLAYING") =>
            /\ closure.pos = heliPosition
            /\ closure.vel = heliVelocity
            /\ status = "PLAYING"]_vars

\* C20: the delta of the physics step is the frame delta, which is in
\* milliseconds, divided by 1000: the velocity a tick computes is the old
\* velocity plus the acceleration times deltaTime / 1000, clamped (stated
\* times 1000 to stay in whole numbers), and the frame delta is above 0.
C20_DeltaInSeconds ==
    [][(op'.name = "tick" /\ closure.status = "PLAYING") =>
            /\ op'.dt > 0
            /\ 1000 * TickNewVelocity =
                 Max(Min(1000 * closure.vel + Acceleration(isThrusting) * op'.dt,
                         1000 * MAX_VELOCITY),
                     -(1000 * MAX_VELOCITY))]_vars

\* C21: while status stays PLAYING no step (tick, input event or resize)
\* taken from a rendered state leaves the helicopter's x smaller than it
\* was.
C21_XNeverDecreases ==
    [][(status = "PLAYING" /\ status' = "PLAYING" /\ closure = Rendered) =>
            heliPosition'.x >= heliPosition.x]_vars

\* C22: every START -> PLAYING transition leaves hasPlayedBefore true in
\* memory and 'true' in the stored entry, and once the stored values are
\* loaded neither of the two is ever taken back.
C22_HasPlayedSticks ==
    [][/\ (status = "START" /\ status' = "PLAYING") =>
            /\ hasPlayedBefore'
            /\ store'.hasPlayed = Item(TrueString)
       /\ (mounted /\ hasPlayedBefore) => hasPlayedBefore'
       /\ (mounted /\ store.hasPlayed = Item(TrueString)) =>
            store'.hasPlayed = Item(TrueString)]_vars

\* C22 witness: a run was started, played and ended, a tap on Play Again
\* has returned to the start screen, and the flag is still set in memory and
\* in storage.
C22_Witness ==
    /\ status = "START"
    /\ closure.status = "START"
    /\ op.name \in Taps
    /\ ticked
    /\ store.lastScore = Item(NumberToString(0))
    /\ store.bestScore = NoItem
    /\ hasPlayedBefore
    /\ store.hasPlayed = Item(TrueString)

\* C24: every run of animate calls the callback exactly once with the
\* frame's timestamp minus the timestamp of the frame delivered before it,
\* and the first frame delivered after mount calls nothing.
C24_DeltaBetweenFrames ==
    [][op'.name = "animate" =>
            IF delivered.time = Undefined
            THEN ~delivered'.called
            ELSE /\ delivered'.called
                 /\ delivered'.deltaTime = frameTime - delivered.time]_vars

\* C24 as amended: every run of animate calls the callback at most once,
\* with the frame's timestamp minus the time recorded last, and calls nothing
\* only when no time has been recorded yet; it then records the frame's
\* timestamp.  Apart from animate only a start() that finds no request
\* outstanding records a time, the current one, and nothing else calls the
\* callback.
C24_DeltaFromRecordedTime ==
    [][/\ op'.name = "animate" =>
            /\ delivered'.called = (previousTimeRef # Undefined)
            /\ delivered'.called =>
                 delivered'.deltaTime = frameTime - previousTimeRef
            /\ delivered'.time = frameTime
            /\ previousTimeRef' = frameTime
       /\ op'.name # "animate" =>
            /\ delivered' = delivered
            /\ previousTimeRef' =
                 IF op'.name = "start" /\ requestRef = Undefined
                 THEN now ELSE previousTimeRef]_vars

\* C24 witness: a loop mounted with isActive false was started by start()
\* two nominal frames after mount and its first frame came one nominal
\* frame later: the callback was called, with the time since start(), and
\* the next frame is requested.
C24_Witness ==
    /\ op.name = "animate"
    /\ ~isActive
    /\ nextHandle = 3
    /\ delivered.called
    /\ delivered.time = 3 * NominalFrame
    /\ delivered.deltaTime = NominalFrame
    /\ previousTimeRef = delivered.time
    /\ requestRef = 2
    /\ rafQueue # {}

\* C25: with frame timestamps that never decrease, no run of animate hands
\* the callback a negative delta, whatever frames, stop(), start() and
\* changes of isActive and of the callback came before.
C25_DeltaNeverNegative ==
    delivered.called => delivered.deltaTime >= 0

\* C26: at every moment at most one frame request of the hook is
\* outstanding, counting the callbacks of the running display frame that
\* have not run yet, so no display frame runs animate twice.
C26_OneRequestOutstanding ==
    Cardinality(rafQueue) + Len(frameList) <= 1

\* C27: a re-render with a new callback right after a stop() that left no
\* frame request outstanding leaves none outstanding, so no frame runs
\* animate and the callback is not called before start() is.
C27_StoppedUntilStart ==
    [][(/\ op.name = "stop"
        /\ rafQueue = {}
        /\ op'.name = "changeCallback") => rafQueue' = {}]_vars

\* C28: the click that follows the touchstart of the same tap makes no
\* second transition: after a touchstart on Play Again has moved status to
\* START the click leaves it START, and after a touchstart has started a run
\* the click leaves status PLAYING.
C28_OneTransitionPerTap ==
    [][(/\ op.name = "touchstart"
        /\ op'.name = "click"
        /\ op'.pt = op.pt
        /\ status \in {"START", "PLAYING"}) => status' = status]_vars

\* C29: every START -> PLAYING transition leaves isThrusting false;
\* isThrusting turns true only in a mousedown or touchstart handled by a
\* render whose status is PLAYING, and every mouseup, touchend, mouseleave
\* or touchcancel leaves it false.
C29_ThrustNotCarriedOver ==
    [][/\ (status = "START" /\ status' = "PLAYING") => ~isThrusting'
       /\ (~isThrusting /\ isThrusting') =>
            /\ op'.name \in {"mousedown", "touchstart"}
            /\ closure.status = "PLAYING"
       /\ op'.name = "pointerup" => ~isThrusting']_vars

\* C30: startGame called when status is not START, endGame called when
\* status is not PLAYING and restartGame called when status is not GAME_OVER
\* change none of status, score, lastScore, bestScore and the stored entries.
C30_OperationsGuarded ==
    [][(\/ op'.name = "startGame" /\ status # "START"
        \/ op'.name = "endGame" /\ status # "PLAYING"
        \/ op'.name = "restartGame" /\ status # "GAME_OVER")
            => /\ status' = status
               /\ score' = score
               /\ lastScore' = lastScore
               /\ bestScore' = bestScore
               /\ store' = store]_vars

\* C31: with frames that keep arriving, a run in which thrust is never on
\* ends: from every state with status PLAYING a state is reached in which
\* status is GAME_OVER or thrust is on.
C31_RunWithoutThrustEnds ==
    (status = "PLAYING") ~> (status = "GAME_OVER" \/ isThrusting)

\* C32: once the stored values are loaded no step leaves bestScore lower
\* than it was, and every PLAYING -> GAME_OVER transition leaves bestScore a
\* number that is lastScore or more.
C32_BestScoreNeverDecreases ==
    [][/\ mounted => ~JsGt(bestScore, bestScore')
       /\ (mounted /\ status = "PLAYING" /\ status' = "GAME_OVER") =>
            /\ bestScore' # NaN
            /\ bestScore' >= lastScore']_vars

\* C33: while status stays PLAYING only a tick changes the helicopter's
\* position and velocity; a resize of the viewport leaves both as they were.
C33_ResizeKeepsBody ==
    [][(/\ status = "PLAYING"
        /\ status' = "PLAYING"
        /\ closure.status = "PLAYING"
        /\ op'.name # "tick") =>
            /\ heliPosition' = heliPosition
            /\ heliVelocity' = heliVelocity]_vars

\* C34: with storage that works, setValue(v) leaves the hook's value v and
\* the entry the JSON of v, and a hook that mounts over the entry
\* setValue(v) wrote has the value v, for every value v.
C34_RoundTrip ==
    [][/\ (hookOp'.name = "setValue" /\ ~hookOp'.failed) =>
            /\ storedValue'[hookOp'.tab] = hookOp'.arg
            /\ item' = Item(JSONStringify(hookOp'.arg))
       /\ (hookOp'.name = "mount" /\ ~hookOp'.failed) =>
            \A v \in JsonValues :
                item = Item(JSONStringify(v)) => storedValue'[hookOp'.tab] = v]_vars

\* C34 witness: setValue(null) wrote the entry 'null', the component
\* unmounted, and the hook mounted again has the value null, which is not
\* its initialValue.
C34_Witness ==
    /\ hookOp.name = "mount"
    /\ ~hookOp.failed
    /\ item = Item(NullString)
    /\ storedValue[FirstTab] = JsonValue("null", 0)
    /\ renderedValue[FirstTab] = JsonValue("null", 0)
    /\ storedValue[FirstTab] # InitialValue

\* C35: every call setValue(prev => prev + 1) with storage that works leaves
\* the hook's value one more than it was before the call, rendered or not,
\* and the entry the JSON of that value, so n calls add n.
C35_FunctionalUpdate ==
    [][(hookOp'.name = "increment" /\ ~hookOp'.failed) =>
            /\ storedValue'[hookOp'.tab] =
                 Number(storedValue[hookOp'.tab].n + 1)
            /\ item' = Item(JSONStringify(Number(storedValue[hookOp'.tab].n + 1)))]_vars

\* C37: no operation of the hook lets an exception out; a mount whose
\* getItem throws or whose entry cannot be parsed has the value
\* initialValue; and a setValue whose setItem throws leaves the hook's value
\* and the entry equal if they were equal before it.
C37_ErrorsContained ==
    [][/\ ~hookOp'.threw
       /\ (/\ hookOp'.name = "mount"
           /\ \/ hookOp'.failed
              \/ (item.has /\ JSONParse(item.val) = SyntaxError)) =>
                storedValue'[hookOp'.tab] = InitialValue
       /\ (/\ hookOp'.name \in {"setValue", "increment"}
           /\ hookOp'.failed
           /\ item = Item(JSONStringify(storedValue[hookOp'.tab]))) =>
                item' = Item(JSONStringify(storedValue'[hookOp'.tab]))]_vars

\* The score an entry stands for: the number in it, 0 (the initialValue)
\* when there is none.
ItemScore(e) ==
    IF e.has THEN JSONParse(e.val).n ELSE InitialValue.n

\* The highest score reported to updateScore in any tab so far.
MaxReported ==
    IF reported = {} THEN InitialValue.n
    ELSE CHOOSE m \in reported : \A r \in reported : m >= r

\* C36: no step lowers the stored best score or the bestScore of a tab, and
\* whenever both tabs are mounted and rendered and no storage event waits,
\* the entry and both tabs hold the highest score reported so far.
C36_TabsAgreeOnMaximum ==
    [][/\ ItemScore(item') >= ItemScore(item)
       /\ \A t \in Tabs :
            (Mounted(t) /\ storedValue'[t] # Unmounted) =>
                storedValue'[t].n >= storedValue[t].n
       /\ (\A t \in Tabs : /\ storedValue'[t] # Unmounted
                           /\ renderedValue'[t] = storedValue'[t]
                           /\ storageEvents'[t] = <<>>) =>
            /\ ItemScore(item') = MaxReported'
            /\ \A t \in Tabs : storedValue'[t].n = MaxReported']_vars
====
